---- MODULE Spec2Model ----
(***************************************************************************)
(* Session-lifecycle synchronisation of the scrutiny quiz client:          *)
(*   useSessionPoll   (src/src/hooks/useSessionPoll.ts)                    *)
(*   LobbyView        (src/src/components/LobbyView.tsx)                   *)
(*   StudentDashboard (src/src/components/StudentDashboard.tsx)            *)
(*   StudentQuizView  (src/src/components/StudentQuizView.tsx)             *)
(* React renders and the effects they schedule are taken in the same step  *)
(* as the state update that causes them; every await is a step boundary.   *)
(***************************************************************************)
EXTENDS Integers, Sequences, FiniteSets, TLC

(***************************************************************************)
(* Bounds of the model.                                                    *)
(***************************************************************************)
MaxCand == 3        \* longest candidate list the probe loop is run on
MaxGen == 2         \* runs of the effect of useSessionPoll per hook instance
MaxInflight == 2    \* tryFetchOnce invocations that may overlap
MaxOverlap == 1     \* of them, under a LobbyView: the interval outlasts a cycle
MaxAct == 1         \* activation blocks of LobbyView in flight
MaxHandlers == 1    \* handleSessionStarted invocations in flight
MaxSubmits == 1     \* handleSubmit invocations in flight
MaxQuizMounts == 2  \* mounts of StudentQuizView
MaxHist == 1        \* fetchQuizzes invocations in flight

(***************************************************************************)
(* JSON values.  A scalar is a string, NULL stands for null and undefined. *)
(* An object is a record, JNull is the null in a place that holds objects. *)
(***************************************************************************)
NULL == "null"
JNull == [jnull |-> TRUE]

\* A raw session object with every field absent.
RawEmpty ==
  [id |-> NULL, sessionId |-> NULL, session_id |-> NULL, session |-> JNull,
   quizId |-> NULL, quiz_id |-> NULL, status |-> NULL, state |-> NULL]

SessionIds == {"S1", "S2"}
QuizIds == {"Q1", "Q7"}

(***************************************************************************)
(* HTTP responses as the fetch API presents them.                          *)
(***************************************************************************)
NetErr == [net |-> FALSE, status |-> 0, body |-> [kind |-> "none", val |-> JNull]]

HttpResp(st, kind, val) ==
  [net |-> TRUE, status |-> st, body |-> [kind |-> kind, val |-> val]]

\* resp.ok of the fetch API: the status is in 200..299
RespOk(r) == r.status >= 200 /\ r.status <= 299

\* text && text.trim().startsWith("<")
IsMarkup(r) == r.body.kind = "markup"

\* JSON.parse(text) throws: the text is neither empty nor JSON
ParseThrows(r) == r.body.kind \in {"markup", "garbage"}

\* json = text ? JSON.parse(text) : null
ParseJson(r) == IF r.body.kind = "json" THEN r.body.val ELSE JNull

\* String(status) of the statuses the model uses
StatusStr(st) ==
  CASE st = 200 -> "200"
    [] st = 404 -> "404"
    [] OTHER -> "0"

(***************************************************************************)
(* State.                                                                  *)
(***************************************************************************)
VARIABLES
  \* useSessionPoll, one hook instance (the one of the mounted LobbyView)
  sessionId,    \* the sessionId argument of the hook, NULL when absent
  session,      \* useState session: a raw payload or JNull
  loading,      \* useState loading
  error,        \* useState error: a string or NULL
  stopped,      \* stopped.current
  mounted,      \* the component that owns the hook is mounted
  gen,          \* number of runs of the effect so far; the current run
  abort,        \* abort[g]: the closure variable abort of run g
  timer,        \* timer[g]: the interval of run g is set and not cleared
  cyc,          \* cyc[k]: an invocation of tryFetchOnce that has not ended
  \* LobbyView, the instance that owns the hook and mounts with it
  act,          \* act[a]: a run of the async block of the activation effect
  \* StudentDashboard
  dashUp,       \* the effects of the mount have run
  currentSessionId,
  joinedQuizId,
  activeQuiz,   \* useState activeQuiz: a quiz payload or JNull
  dError,       \* useState error of the dashboard
  submitted,    \* submittedRef.current: a set of keys
  store,        \* localStorage item "submittedItems": a set of keys, or NoItem
  peer,         \* submittedRef.current of a second dashboard that is open on
                \* the same localStorage, NoItem while there is none
  hs,           \* hs[h]: an invocation of handleSessionStarted past its checks
  histPending,  \* invocations of fetchQuizzes that have not settled
  \* StudentQuizView, mounted while activeQuiz is set
  qinst,        \* number of the mounted instance, counting the mounts
  submitting, disabled, submitMsg, submitError,
  answers,      \* useState answers: an entry per question, "-1" or an option
  sub,          \* sub[s]: an invocation of handleSubmit past its checks
  timers,       \* the pending setTimeout(onComplete) calls
  \* what the run has shown so far
  activations,  \* starts of the activation block by the LobbyView instance
  seen,         \* the status updates delivered to the LobbyView instance
  lastStart,    \* the branch the last call of handleSessionStarted took
  nQuizFetch,   \* quiz-detail requests issued
  nSetActive,   \* assignments of a quiz to activeQuiz
  \* environment
  candidates,   \* the candidate list of the probe loop
  resp,         \* resp[u]: what the backend answers on url u at this moment
  norm          \* a payload handed to normalizeSession, and what it returned

pollVars == <<sessionId, session, loading, error, stopped, mounted, gen, abort,
              timer, cyc>>
lobbyVars == <<act, activations, seen>>
dashVars == <<dashUp, currentSessionId, joinedQuizId, activeQuiz, dError,
              submitted, store, peer, hs, histPending, lastStart, nQuizFetch, nSetActive>>
quizVars == <<qinst, submitting, disabled, submitMsg, submitError, answers, sub,
             timers>>
uiVars == <<lobbyVars, dashVars, quizVars>>
envVars == <<candidates, resp, norm>>
vars == <<pollVars, uiVars, envVars>>

(***************************************************************************)
(* useSessionPoll: the probe loop of tryFetchOnce.                         *)
(***************************************************************************)
CandNames == <<"A", "B", "C", "D", "E">>

\* lines 61-67: the list literal holds the status url alone
StatusOnly == <<"A">>

NoError == [url |-> NULL, status |-> 0, what |-> "none"]
FetchErr == [url |-> NULL, status |-> 0, what |-> "fetchErr"]

IdleCycle ==
  [pc |-> "idle", gen |-> 0, auth |-> FALSE, req |-> <<>>, inflight |-> NetErr,
   lastError |-> NoError, got |-> JNull, outcome |-> "none"]

\* the loop body with a 2xx markup page taken for the payload (got = text)
ProbeBody_MarkupPasses(u, r, lastError) ==
  IF ~r.net
    THEN [brk |-> FALSE, got |-> JNull, lastError |-> FetchErr]
  ELSE IF IsMarkup(r) /\ RespOk(r)
    THEN [brk |-> TRUE, got |-> RawEmpty, lastError |-> lastError]
  ELSE IF ParseThrows(r) \/ ~RespOk(r)
    THEN [brk |-> FALSE, got |-> JNull,
          lastError |-> [url |-> u, status |-> r.status, what |-> "raw"]]
  ELSE [brk |-> TRUE, got |-> ParseJson(r), lastError |-> lastError]

\* One pass of the body of the for loop (lines 74-114) on url u answered by r.
\* brk: the loop is left by break; otherwise the pass ends in continue.
ProbeBody(u, r, lastError) ==
  IF ~r.net
    THEN [brk |-> FALSE, got |-> JNull, lastError |-> FetchErr]
  ELSE IF IsMarkup(r)
    THEN [brk |-> FALSE, got |-> JNull,
          lastError |-> [url |-> u, status |-> r.status, what |-> "raw"]]
  ELSE IF ParseThrows(r)
    THEN [brk |-> FALSE, got |-> JNull,
          lastError |-> [url |-> u, status |-> r.status, what |-> "parseErr"]]
  ELSE IF ~RespOk(r)
    THEN [brk |-> FALSE, got |-> JNull,
          lastError |-> [url |-> u, status |-> r.status, what |-> "payload"]]
  ELSE [brk |-> TRUE, got |-> ParseJson(r), lastError |-> lastError]

\* line 121: lastError ? String(lastError?.status ?? lastError) : "No session info"
ErrorText(lastError) ==
  IF lastError.what = "none" THEN "No session info"
  ELSE IF lastError.what = "fetchErr" THEN "TypeError: Failed to fetch"
  ELSE StatusStr(lastError.status)

\* line 128: got.session ?? got
Unwrap(got) == IF got.session # JNull THEN got.session ELSE got

\* line 73: if (abort) break, at the head of every pass of the loop
AbortAtLoopHead(g) == abort[g]

\* the check of line 117 left out
AbortAfterLoop_Dropped(g) == FALSE

\* line 117: if (abort) return, ahead of every publication
AbortAfterLoop(g) == abort[g]

\* lines 117-130: what follows the loop. pub: what is published.
AfterLoop(c) ==
  IF AbortAfterLoop(c.gen)
    THEN [c |-> [c EXCEPT !.pc = "done", !.outcome = "aborted"], pub |-> "none"]
  ELSE IF c.got = JNull
    THEN [c |-> [c EXCEPT !.pc = "done", !.outcome = "error"], pub |-> "error"]
  ELSE [c |-> [c EXCEPT !.pc = "done", !.outcome = "update"], pub |-> "session"]

\* the next candidate the for loop takes after the ones already requested
NextCandidate(c) == Len(c.req) + 1

\* lines 72-76: the head of a pass: leave the loop or request the next url
LoopHead(c) ==
  IF AbortAtLoopHead(c.gen) \/ NextCandidate(c) > Len(candidates)
    THEN AfterLoop(c)
    ELSE [c |-> [c EXCEPT !.pc = "fetch",
                          !.req = Append(c.req, NextCandidate(c)),
                          !.inflight = resp[candidates[NextCandidate(c)]]],
          pub |-> "none"]

\* a hook that drops its session when an invocation fails
Publish_ErrorClearsSession(k, r) ==
  /\ cyc' = [cyc EXCEPT ![k] = IF r.c.pc = "done" THEN IdleCycle ELSE r.c]
  /\ session' = IF r.pub = "session" THEN Unwrap(r.c.got)
                ELSE IF r.pub = "error" THEN JNull ELSE session
  /\ error' = IF r.pub = "error" THEN ErrorText(r.c.lastError) ELSE error
  /\ loading' = IF r.pub = "none" THEN loading ELSE FALSE

\* the hook state after a step of invocation k that leaves it as r.c
Publish(k, r) ==
  /\ cyc' = [cyc EXCEPT ![k] = IF r.c.pc = "done" THEN IdleCycle ELSE r.c]
  /\ session' = IF r.pub = "session" THEN Unwrap(r.c.got) ELSE session
  /\ error' = IF r.pub = "error" THEN ErrorText(r.c.lastError) ELSE error
  /\ loading' = IF r.pub = "none" THEN loading ELSE FALSE

FreeSlots == {k \in 1..MaxInflight : cyc[k].pc = "idle"}
LowestFree == CHOOSE k \in FreeSlots : \A j \in FreeSlots : k <= j

\* lines 41-48: tryFetchOnce up to its first await, for run g
StartCycle(cs, g) ==
  [cs EXCEPT ![LowestFree] = [IdleCycle EXCEPT !.pc = "token", !.gen = g]]

\* an invocation that gives up when it has no token
AfterToken_NeedsToken(c, tok) ==
  IF tok = NULL
    THEN [c |-> [c EXCEPT !.pc = "done", !.outcome = "error"], pub |-> "error"]
    ELSE LoopHead([c EXCEPT !.auth = TRUE])

\* lines 46-59 and the first head of the loop: the Authorization header is
\* set when there is a token, and the loop is entered either way
AfterToken(c, tok) == LoopHead([c EXCEPT !.auth = (tok # NULL)])

\* lines 48-59 and the first head of the loop: getSession() has settled.
\* tok is the token, NULL when there is none or getSession threw.
TokenReturn(k, tok) ==
  /\ cyc[k].pc = "token"
  /\ Publish(k, AfterToken(cyc[k], tok))
  /\ UNCHANGED <<sessionId, stopped, mounted, gen, abort, timer>>

\* lines 76-130: where invocation k goes once its fetch has settled
FetchResult(k) ==
  LET c == cyc[k]
      u == candidates[c.req[Len(c.req)]]
      b == ProbeBody(u, c.inflight, c.lastError)
      c2 == [c EXCEPT !.got = b.got, !.lastError = b.lastError]
  IN  IF b.brk THEN AfterLoop(c2) ELSE LoopHead(c2)

\* lines 76-115: the fetch of invocation k has settled with its response
FetchReturn(k) ==
  /\ cyc[k].pc = "fetch"
  /\ Publish(k, FetchResult(k))
  /\ UNCHANGED <<sessionId, stopped, mounted, gen, abort, timer>>

(***************************************************************************)
(* useSessionPoll: the effect, its interval and its cleanup.               *)
(***************************************************************************)
\* the run that has a cleanup to call: a run with a session id
HasCleanup == gen > 0 /\ mounted /\ timer[gen]

\* lines 149-153 on the flags of run g
CleanupAbort(g) == [abort EXCEPT ![g] = TRUE]
CleanupTimer(g) == [timer EXCEPT ![g] = FALSE]

\* the effect without its immediate call of tryFetchOnce
InitialFetch_Omitted(cs, g) == cs

\* lines 133-138: the immediate call of tryFetchOnce by run g of the effect
InitialFetch(cs, g) == StartCycle(cs, g)

\* lines 27-147: the effect runs for session id sid, after the cleanup of the
\* run before it when there is one. fresh: the run is the first one of a
\* newly mounted instance, whose session state is still null.
RunEffect(sid, fresh) ==
  /\ gen < MaxGen
  /\ gen' = gen + 1
  /\ sessionId' = sid
  /\ stopped' = FALSE
  /\ abort' = IF HasCleanup THEN CleanupAbort(gen) ELSE abort
  /\ IF sid = NULL
       THEN /\ session' = JNull
            /\ loading' = FALSE
            /\ error' = NULL
            /\ timer' = IF HasCleanup THEN CleanupTimer(gen) ELSE timer
            /\ cyc' = cyc
       ELSE /\ FreeSlots # {}
            /\ cyc' = InitialFetch(cyc, gen + 1)
            /\ loading' = TRUE
            /\ error' = NULL
            /\ session' = IF fresh THEN JNull ELSE session
            /\ timer' = [(IF HasCleanup THEN CleanupTimer(gen) ELSE timer)
                           EXCEPT ![gen + 1] = TRUE]

\* an instance of the component mounts with session id sid: the first run of
\* the effect of that instance
MountWith(sid) ==
  /\ ~mounted
  /\ mounted' = TRUE
  /\ RunEffect(sid, TRUE)

\* the first instance mounts
Mount == gen = 0 /\ MountWith(sessionId)

\* the sessionId argument changes: cleanup, then the effect again
ChangeSessionId(sid) ==
  /\ mounted /\ sid # sessionId
  /\ mounted' = mounted
  /\ RunEffect(sid, FALSE)

\* the component unmounts: lines 149-153
Unmount ==
  /\ mounted
  /\ mounted' = FALSE
  /\ abort' = IF HasCleanup THEN CleanupAbort(gen) ELSE abort
  /\ timer' = IF HasCleanup THEN CleanupTimer(gen) ELSE timer
  /\ stopped' = IF HasCleanup THEN TRUE ELSE stopped
  /\ UNCHANGED <<sessionId, session, loading, error, gen, cyc>>

\* line 142 with a poller that gives up once an error is published
TickSkips_OnError(g) == stopped \/ abort[g] \/ error # NULL

\* line 142: if (stopped.current || abort) return
TickSkips(g) == stopped \/ abort[g]

\* lines 141-147: the interval of run g fires
Tick(g) ==
  /\ timer[g]
  /\ FreeSlots # {}
  /\ IF TickSkips(g)
       THEN UNCHANGED <<cyc, loading, error>>
       ELSE /\ cyc' = StartCycle(cyc, g)
            /\ loading' = TRUE
            /\ error' = NULL
  /\ UNCHANGED <<sessionId, session, stopped, mounted, gen, abort, timer>>

(***************************************************************************)
(* LobbyView: normalizeSession and the activation effect.                  *)
(***************************************************************************)
\* a counter that stops counting at two
Bump(n) == IF n < 2 THEN n + 1 ELSE n

\* a ?? b on scalars
Coalesce(a, b) == IF a # NULL THEN a ELSE b

\* raw.f of a scalar property: undefined, here NULL, when raw has no such
\* property
Field(raw, f) == IF f \in DOMAIN raw THEN raw[f] ELSE NULL

\* raw.f of a property that holds an object: JNull when there is none
ObjectField(raw, f) == IF f \in DOMAIN raw THEN raw[f] ELSE JNull

\* raw.session?.f
SessionField(raw, f) ==
  IF ObjectField(raw, "session") = JNull THEN NULL
  ELSE Field(ObjectField(raw, "session"), f)

\* A JSON value that is no object is a record with the one field scalar,
\* which holds its text.
Scalar(text) == [scalar |-> text]
IsScalar(v) == "scalar" \in DOMAIN v

\* the scalars that are falsy: false, 0 and the empty string
FalsyTexts == {"false", "0", ""}

\* line 17: !raw
Falsy(raw) == raw = JNull \/ (IsScalar(raw) /\ raw.scalar \in FalsyTexts)

\* what an object reads as where a string is expected
ObjectText == "[object Object]"

\* lines 24-27: raw.quiz?.id ?? raw.quiz?.quizId ?? raw.quiz?.quiz_id ?? raw.quiz
\* where raw.quiz is absent, a scalar, or an object (which, having none of
\* the three, is the value itself)
QuizField(raw) ==
  LET q == ObjectField(raw, "quiz")
  IN  IF q = JNull THEN NULL
      ELSE IF IsScalar(q) THEN q.scalar
      ELSE Coalesce(Field(q, "id"), Coalesce(Field(q, "quizId"),
             Coalesce(Field(q, "quiz_id"), ObjectText)))

\* the properties that normalizeSession sets (lines 55-64)
Canonical == {"id", "quizId", "participants", "status", "startsAt", "endsAt", "pin"}

\* the id chain in another order
IdOf_SessionIdFirst(raw) ==
  Coalesce(Field(raw, "sessionId"), Coalesce(Field(raw, "id"),
    Coalesce(Field(raw, "session_id"), SessionField(raw, "id"))))

\* line 19
IdOf(raw) ==
  Coalesce(Field(raw, "id"), Coalesce(Field(raw, "sessionId"),
    Coalesce(Field(raw, "session_id"), SessionField(raw, "id"))))

\* lines 21-30
QuizIdOf(raw) ==
  Coalesce(Field(raw, "quizId"), Coalesce(Field(raw, "quiz_id"),
    Coalesce(QuizField(raw),
      Coalesce(SessionField(raw, "quizId"), SessionField(raw, "quiz_id")))))

\* line 32, a list being a scalar here
ParticipantsOf(raw) ==
  Coalesce(Field(raw, "participants"), Coalesce(Field(raw, "users"),
    Coalesce(Field(raw, "participantList"), "[]")))

\* line 34
StatusOf(raw) == Coalesce(Field(raw, "status"), Coalesce(Field(raw, "state"), ""))

\* lines 36-43
StartsAtOf(raw) ==
  Coalesce(Field(raw, "startsAt"), Coalesce(Field(raw, "startTime"),
    Coalesce(Field(raw, "start_time"), Coalesce(Field(raw, "starts_at"),
      Coalesce(SessionField(raw, "startsAt"), SessionField(raw, "startTime"))))))

\* lines 44-51
EndsAtOf(raw) ==
  Coalesce(Field(raw, "endsAt"), Coalesce(Field(raw, "endTime"),
    Coalesce(Field(raw, "end_time"), Coalesce(Field(raw, "ends_at"),
      Coalesce(SessionField(raw, "endsAt"), SessionField(raw, "endTime"))))))

\* line 53
PinOf(raw) ==
  Coalesce(Field(raw, "pin"), Coalesce(Field(raw, "pinCode"),
    Coalesce(Field(raw, "code"), SessionField(raw, "pin"))))

\* lines 16-65: null for a falsy input; otherwise the properties of raw with
\* the canonical ones set over them
normalizeSession(raw) ==
  IF Falsy(raw) THEN JNull
  ELSE [f \in DOMAIN raw \cup Canonical |->
          CASE f = "id" -> IdOf(raw)
            [] f = "quizId" -> QuizIdOf(raw)
            [] f = "participants" -> ParticipantsOf(raw)
            [] f = "status" -> StatusOf(raw)
            [] f = "startsAt" -> StartsAtOf(raw)
            [] f = "endsAt" -> EndsAtOf(raw)
            [] f = "pin" -> PinOf(raw)
            [] OTHER -> raw[f]]

\* toLowerCase() on the status strings of the model
Lower(s) == IF s \in {"active", "Active"} THEN "active" ELSE s

\* line 207: the dependency session?.status
StatusDep(s) == IF s = JNull THEN NULL ELSE s.status

\* the status compared as it is spelled
SStatus_CaseSensitive(s) == Coalesce(s.status, Coalesce(s.state, ""))

\* line 98
SStatus(s) == Lower(Coalesce(s.status, Coalesce(s.state, "")))

\* the effect without its dependency list: it runs in every render
EffectFires_EveryRender(old, new) == new # JNull /\ SStatus(new) = "active"

\* lines 96-100 and 207: the effect runs in the render that follows a change
\* of its dependency, and starts the block when the session reads active
EffectFires(old, new) ==
  StatusDep(new) # StatusDep(old) /\ new # JNull /\ SStatus(new) = "active"

IdleAct == [pc |-> "idle", snap |-> JNull, jq |-> NULL, i |-> 0, inflight |-> NetErr]

FreeActs == {a \in 1..MaxAct : act[a].pc = "idle"}
LowestFreeAct == CHOOSE a \in FreeActs : \A b \in FreeActs : a <= b

\* line 115: the status url is the url the poller requests
StatusUrl == StatusOnly[1]

\* lines 154-160: the fallback urls
NumFallbacks == 5

\* the update says active, in whatever letter case and under either name
ReadsActive(new) == Lower(Coalesce(new.status, Coalesce(new.state, ""))) = "active"

NoneSeen == [ph |-> "none", sp |-> NULL, n |-> 0]
Disordered == [ph |-> "bad", sp |-> NULL, n |-> 0]

\* The status updates an instance has been fed, as far as their order goes:
\*   none  no update yet
\*   pre   updates that are not active
\*   act   since then, n active updates, all spelled sp in their status field
\*   post  since then, updates that are not active
\*   bad   any other sequence
SeenNext(sn, new) ==
  IF ReadsActive(new)
    THEN IF new.status = NULL THEN Disordered
         ELSE IF sn.ph \in {"none", "pre"} THEN [ph |-> "act", sp |-> new.status, n |-> 1]
         ELSE IF sn.ph = "act" /\ sn.sp = new.status THEN [sn EXCEPT !.n = Bump(sn.n)]
         ELSE Disordered
    ELSE IF sn.ph = "none" THEN [ph |-> "pre", sp |-> NULL, n |-> 0]
         ELSE IF sn.ph = "act" THEN [sn EXCEPT !.ph = "post"]
         ELSE sn

\* lines 74-207: the render of LobbyView after a step of the hook that took
\* its session from old to new; pub: the step published a session; jq: the
\* joinedQuizId in the onSessionStarted this render is given
LobbyRender(old, new, pub, jq) ==
  /\ seen' = IF pub /\ mounted THEN SeenNext(seen, new) ELSE seen
  /\ IF mounted /\ EffectFires(old, new)
       THEN /\ FreeActs # {}
            /\ act' = [act EXCEPT ![LowestFreeAct] =
                         [IdleAct EXCEPT !.pc = "token", !.snap = new, !.jq = jq]]
            /\ activations' = Bump(activations)
       ELSE UNCHANGED <<act, activations>>

\* json = text ? JSON.parse(text) : null, a parse error leaving null
JsonOrNull(r) == IF r.body.kind = "json" THEN r.body.val ELSE JNull

\* lines 143 and 184: json?.session ?? json ?? session
FullOf(r, snap) ==
  LET j == JsonOrNull(r)
  IN  IF j = JNull THEN snap
      ELSE IF j.session # JNull THEN j.session ELSE j

\* How a settled request of the block ends: "call" onSessionStarted with n,
\* or "next": go on with the fallbacks.
\* lines 118-151: the status url
StatusOutcome(r, snap) ==
  IF ~r.net \/ ~RespOk(r) THEN [to |-> "next", n |-> JNull]
  ELSE [to |-> "call", n |-> normalizeSession(FullOf(r, snap))]

\* lines 163-192: one fallback url
FallbackOutcome(r, snap) ==
  IF ~r.net \/ ~RespOk(r) THEN [to |-> "next", n |-> JNull]
  ELSE [to |-> "call", n |-> normalizeSession(FullOf(r, snap))]

\* normalizeSession has not returned yet
Pending == [pending |-> TRUE]

\* no payload is being normalized
NoNorm == [raw |-> JNull, twin |-> JNull, out |-> Pending, outTwin |-> Pending]

\* normalizeSession is applied to the payload and to its twin
Normalize ==
  /\ norm.out = Pending
  /\ norm' = [norm EXCEPT !.out = normalizeSession(norm.raw),
                          !.outTwin = normalizeSession(norm.twin)]
  /\ UNCHANGED <<candidates, resp, pollVars, uiVars>>

(***************************************************************************)
(* StudentDashboard: the submitted set and handleSessionStarted.           *)
(***************************************************************************)
\* localStorage.getItem gives null
NoItem == {"<none>"}

\* `s:${sId}` and `q:${qId}`
Key(kind, id) == kind \o ":" \o id

\* a quiz as GET /api/quizzes/:id answers it, with its number of questions
Quiz(q) == [id |-> q, questions |-> 1]

IdleHandler == [pc |-> "idle", quizId |-> NULL]
FreeHandlers == {h \in 1..MaxHandlers : hs[h].pc = "idle"}
LowestFreeHandler == CHOOSE h \in FreeHandlers : \A g \in FreeHandlers : h <= g

\* the quiz id of the session before the one of the join
QuizIdToUse_PayloadFirst(jq, n) ==
  IF n = JNull THEN jq
  ELSE Coalesce(n.quizId, Coalesce(SessionField(n, "quizId"), jq))

\* line 159
QuizIdToUse(jq, n) ==
  IF n = JNull THEN jq
  ELSE Coalesce(jq, Coalesce(n.quizId, SessionField(n, "quizId")))

\* line 160
SIdOf(n) == IF n = JNull THEN NULL ELSE Coalesce(n.id, n.sessionId)

\* the check of the session key left out
SessionAlreadySubmitted_Never(n) == FALSE

\* lines 163-169
SessionAlreadySubmitted(n) == SIdOf(n) # NULL /\ Key("s", SIdOf(n)) \in submitted

\* lines 170-176
QuizAlreadySubmitted(jq, n) ==
  QuizIdToUse(jq, n) # NULL /\ Key("q", QuizIdToUse(jq, n)) \in submitted

\* handleSessionStarted that returns without a word when it has no quiz id
handleSessionStarted_Silent(n, jq) ==
  IF SessionAlreadySubmitted(n)
    THEN lastStart' = "dupSession" /\ UNCHANGED <<hs, dError>>
  ELSE IF QuizAlreadySubmitted(jq, n)
    THEN lastStart' = "dupQuiz" /\ UNCHANGED <<hs, dError>>
  ELSE IF QuizIdToUse(jq, n) = NULL
    THEN lastStart' = "noQuiz" /\ UNCHANGED <<hs, dError>>
  ELSE /\ FreeHandlers # {}
       /\ lastStart' = "started"
       /\ hs' = [hs EXCEPT ![LowestFreeHandler] =
                   [pc |-> "token", quizId |-> QuizIdToUse(jq, n)]]
       /\ dError' = dError

\* lines 156-184: handleSessionStarted up to its first await, called with the
\* normalized session n from a render in which joinedQuizId was jq
handleSessionStarted(n, jq) ==
  IF SessionAlreadySubmitted(n)
    THEN lastStart' = "dupSession" /\ UNCHANGED <<hs, dError>>
  ELSE IF QuizAlreadySubmitted(jq, n)
    THEN lastStart' = "dupQuiz" /\ UNCHANGED <<hs, dError>>
  ELSE IF QuizIdToUse(jq, n) = NULL
    THEN /\ lastStart' = "noQuiz"
         /\ dError' = "Quiz details not available yet - please wait for teacher."
         /\ hs' = hs
  ELSE /\ FreeHandlers # {}
       /\ lastStart' = "started"
       /\ hs' = [hs EXCEPT ![LowestFreeHandler] =
                   [pc |-> "token", quizId |-> QuizIdToUse(jq, n)]]
       /\ dError' = dError

\* lines 260-292: LobbyView is rendered while a session is joined and no quiz
\* is open
LobbyShown(csid, aq) == csid # NULL /\ aq = JNull

\* LobbyView and its hook after a render of the dashboard in which the joined
\* session is csid and the open quiz aq
SyncLobby(csid, aq) ==
  IF ~mounted /\ LobbyShown(csid, aq)
    THEN /\ MountWith(csid)
         /\ activations' = 0
         /\ seen' = NoneSeen
  ELSE IF mounted /\ ~LobbyShown(csid, aq)
    THEN Unmount /\ UNCHANGED <<activations, seen>>
  ELSE IF mounted /\ csid # sessionId
    THEN ChangeSessionId(csid) /\ UNCHANGED <<activations, seen>>
  ELSE UNCHANGED <<pollVars, activations, seen>>

\* StudentQuizView.tsx lines 28-30 and 78-85: the answers of the instance
\* that shows quiz aq, after answers prev: -1 for every question at the
\* mount, and prev[i] ?? -1 when the number of questions changes
AnswersAfter(prev, aq) ==
  IF aq = JNull THEN <<>>
  ELSE [i \in 1..aq.questions |-> IF i <= Len(prev) THEN prev[i] ELSE "-1"]

\* StudentQuizView after the same render: an instance mounts with its initial
\* state when a quiz opens, and its state ends with it when the quiz closes
SyncQuiz(aq) ==
  /\ answers' = AnswersAfter(answers, aq)
  /\ IF (activeQuiz = JNull) = (aq = JNull)
    THEN UNCHANGED <<qinst, submitting, disabled, submitMsg, submitError>>
    ELSE /\ IF aq # JNull
              THEN qinst < MaxQuizMounts /\ qinst' = qinst + 1
              ELSE qinst' = qinst
         /\ submitting' = FALSE
         /\ disabled' = FALSE
         /\ submitMsg' = NULL
         /\ submitError' = NULL

Rerender(csid, aq) == SyncLobby(csid, aq) /\ SyncQuiz(aq)

\* lines 91-93: fetchQuizzes up to its first await
FetchQuizzesStart ==
  /\ histPending < MaxHist
  /\ histPending' = histPending + 1
  /\ dError' = NULL

(***************************************************************************)
(* Steps of the poller with the LobbyView that owns it.                    *)
(***************************************************************************)
InFlight == {k \in 1..MaxInflight : cyc[k].pc # "idle"}

LobbyTick(g) ==
  /\ Cardinality(InFlight) < MaxOverlap
  /\ Tick(g)
  /\ UNCHANGED <<uiVars, envVars>>

LobbyTokenReturn(k, tok) ==
  /\ TokenReturn(k, tok)
  /\ LobbyRender(session, session', FALSE, joinedQuizId)
  /\ UNCHANGED <<dashVars, quizVars, envVars>>

LobbyFetchReturn(k) ==
  /\ FetchReturn(k)
  /\ LobbyRender(session, session', FetchResult(k).pub = "session", joinedQuizId)
  /\ UNCHANGED <<dashVars, quizVars, envVars>>

(***************************************************************************)
(* LobbyView: the async block of the activation effect (lines 103-204).    *)
(***************************************************************************)
\* the block ends: it calls onSessionStarted with n
ActEnds(a, n) ==
  /\ act' = [act EXCEPT ![a] = IdleAct]
  /\ handleSessionStarted(n, act[a].jq)

ActGoesOn(a, pc, i, r) ==
  /\ act' = [act EXCEPT ![a].pc = pc, ![a].i = i, ![a].inflight = r]
  /\ UNCHANGED <<hs, dError, lastStart>>

blockFrame ==
  <<pollVars, activations, seen, dashUp, currentSessionId, joinedQuizId, activeQuiz,
    submitted, store, peer, histPending, nQuizFetch, nSetActive, quizVars, envVars>>

\* lines 105-126: getSession() has settled with tok
ActToken(a, tok) ==
  /\ act[a].pc = "token"
  /\ IF tok = NULL
       THEN ActEnds(a, normalizeSession(act[a].snap))
       ELSE ActGoesOn(a, "status", 0, resp[StatusUrl])
  /\ UNCHANGED blockFrame

\* lines 128-165: the request of the status url has settled; r is what the
\* first fallback url answers
ActStatusReturn(a, r) ==
  /\ act[a].pc = "status"
  /\ LET o == StatusOutcome(act[a].inflight, act[a].snap)
     IN  IF o.to = "call" THEN ActEnds(a, o.n) ELSE ActGoesOn(a, "fallback", 1, r)
  /\ UNCHANGED blockFrame

\* lines 165-198: the request of a fallback url has settled; r is what the
\* next fallback url answers
ActFallbackReturn(a, r) ==
  /\ act[a].pc = "fallback"
  /\ LET o == FallbackOutcome(act[a].inflight, act[a].snap)
     IN  IF o.to = "call" THEN ActEnds(a, o.n)
         ELSE IF act[a].i < NumFallbacks THEN ActGoesOn(a, "fallback", act[a].i + 1, r)
         ELSE ActEnds(a, normalizeSession(act[a].snap))
  /\ UNCHANGED blockFrame

(***************************************************************************)
(* StudentDashboard: its operations.                                       *)
(***************************************************************************)
\* lines 63-72: the set after the mount effect, which finds st in localStorage
LoadSubmitted(st) == IF st = NoItem THEN {} ELSE st

\* lines 63-72 and 142-145: the effects of the mount
DashMount ==
  /\ ~dashUp
  /\ dashUp' = TRUE
  /\ submitted' = LoadSubmitted(store)
  /\ FetchQuizzesStart
  /\ UNCHANGED <<pollVars, lobbyVars, currentSessionId, joinedQuizId, activeQuiz, store, peer,
                 hs, lastStart, nQuizFetch, nSetActive, quizVars, envVars>>

\* lines 96-139: an invocation of fetchQuizzes settles, with the history or
\* with an error (no token, an error status, a failed request)
HistReturn(ok) ==
  /\ histPending > 0
  /\ histPending' = histPending - 1
  /\ dError' = IF ok THEN dError ELSE "history error"
  /\ UNCHANGED <<pollVars, lobbyVars, dashUp, currentSessionId, joinedQuizId, activeQuiz,
                 submitted, store, peer, hs, lastStart, nQuizFetch, nSetActive, quizVars,
                 envVars>>

\* lines 148-153: handlePinJoined, and the render that follows
Join(sid, qid) ==
  /\ dashUp
  /\ currentSessionId' = sid
  /\ joinedQuizId' = IF qid # NULL THEN qid ELSE joinedQuizId
  /\ SyncLobby(sid, activeQuiz)
  /\ UNCHANGED <<act, dashUp, activeQuiz, dError, submitted, store, peer, hs,
                 histPending, lastStart, nQuizFetch, nSetActive, quizVars, envVars>>

\* lines 184-191: getSession() has settled with tok
HandlerToken(h, tok) ==
  /\ hs[h].pc = "token"
  /\ IF tok = NULL
       THEN /\ dError' = "No auth token available."
            /\ hs' = [hs EXCEPT ![h] = IdleHandler]
            /\ nQuizFetch' = nQuizFetch
       ELSE /\ hs' = [hs EXCEPT ![h].pc = "fetch"]
            /\ nQuizFetch' = Bump(nQuizFetch)
            /\ dError' = dError
  /\ UNCHANGED <<pollVars, lobbyVars, dashUp, currentSessionId, joinedQuizId, activeQuiz,
                 submitted, store, peer, histPending, lastStart, nSetActive,
                 quizVars, envVars>>

\* lines 200-217: what the answer r to the quiz-detail request leads to
QuizOutcome(r) ==
  IF ~r.net
    THEN [set |-> FALSE, quiz |-> JNull, err |-> "Network or server error while loading quiz."]
  ELSE IF ~RespOk(r)
    THEN [set |-> FALSE, quiz |-> JNull, err |-> "Failed to load quiz details. Please contact your teacher."]
  ELSE [set |-> TRUE, quiz |-> JsonOrNull(r), err |-> NULL]

\* lines 191-217: the quiz-detail request has settled with r, and the render
\* that follows
HandlerFetchReturn(h, r) ==
  /\ hs[h].pc = "fetch"
  /\ hs' = [hs EXCEPT ![h] = IdleHandler]
  /\ LET o == QuizOutcome(r)
     IN  IF o.set
           THEN /\ activeQuiz' = o.quiz
                /\ nSetActive' = IF o.quiz # JNull THEN Bump(nSetActive) ELSE nSetActive
                /\ dError' = dError
                /\ Rerender(currentSessionId, o.quiz)
           ELSE /\ dError' = o.err
                /\ UNCHANGED <<activeQuiz, nSetActive, pollVars, activations, seen, qinst,
                               submitting, disabled, submitMsg, submitError, answers>>
  /\ UNCHANGED <<act, dashUp, currentSessionId, joinedQuizId, submitted, store, peer,
                 histPending, lastStart, nQuizFetch, sub, timers, envVars>>

\* markSubmitted with a set that is made anew of the keys it is given
AfterMark_Replaces(set, sId, qId) ==
  (IF sId # NULL THEN {Key("s", sId)} ELSE {})
      \cup (IF qId # NULL THEN {Key("q", qId)} ELSE {})

\* lines 75-76: submittedRef.current after markSubmitted(sId, qId)
AfterMark(set, sId, qId) ==
  set \cup (IF sId # NULL THEN {Key("s", sId)} ELSE {})
      \cup (IF qId # NULL THEN {Key("q", qId)} ELSE {})

(***************************************************************************)
(* StudentQuizView.                                                        *)
(***************************************************************************)
IdleSub == [pc |-> "idle", inst |-> 0, csid |-> NULL, payload |-> <<>>]
FreeSubs == {s \in 1..MaxSubmits : sub[s].pc = "idle"}
LowestFreeSub == CHOOSE s \in FreeSubs : \A t \in FreeSubs : s <= t

\* the instance that started invocation s is still mounted
Alive(s) == activeQuiz # JNull /\ sub[s].inst = qinst

quizFrame == <<pollVars, lobbyVars, dashVars, envVars>>

\* line 125: answers.map((a) => (a == null ? null : Number(a)))
Payload(ans) == [i \in DOMAIN ans |-> IF ans[i] = NULL THEN NULL ELSE ans[i]]

\* lines 88-95: handleSelect(qIdx, optIdx), from the option of a question
handleSelect(qIdx, optIdx) ==
  /\ activeQuiz # JNull /\ qIdx \in DOMAIN answers
  /\ answers' = IF disabled THEN answers ELSE [answers EXCEPT ![qIdx] = optIdx]
  /\ UNCHANGED <<qinst, submitting, disabled, submitMsg, submitError, sub, timers,
                 quizFrame>>

\* lines 223-234: the button Clear answers, which is disabled while
\* submitting is set
ClearAnswers ==
  /\ activeQuiz # JNull /\ ~submitting
  /\ IF disabled
       THEN UNCHANGED <<answers, submitMsg, submitError>>
       ELSE /\ answers' = [i \in DOMAIN answers |-> "-1"]
            /\ submitMsg' = NULL
            /\ submitError' = NULL
  /\ UNCHANGED <<qinst, submitting, disabled, sub, timers, quizFrame>>

\* a submit button that is not disabled after a success
Submit_IgnoresDisabled ==
  /\ activeQuiz # JNull /\ ~submitting
  /\ submitMsg' = NULL
  /\ IF activeQuiz.questions = 0
       THEN /\ submitError' = "No questions in this quiz."
            /\ UNCHANGED <<submitting, sub>>
     ELSE IF currentSessionId = NULL
       THEN /\ submitError' = "Session ID not found."
            /\ UNCHANGED <<submitting, sub>>
     ELSE /\ FreeSubs # {}
          /\ submitError' = NULL
          /\ submitting' = TRUE
          /\ sub' = [sub EXCEPT ![LowestFreeSub] =
                       [pc |-> "token", inst |-> qinst, csid |-> currentSessionId,
                        payload |-> Payload(answers)]]
  /\ UNCHANGED <<qinst, disabled, answers, timers, quizFrame>>

\* lines 97-116: handleSubmit up to its first await, from the submit button,
\* which is disabled while submitting or disabled is set (line 219)
Submit ==
  /\ activeQuiz # JNull /\ ~submitting /\ ~disabled
  /\ submitMsg' = NULL
  /\ IF activeQuiz.questions = 0
       THEN /\ submitError' = "No questions in this quiz."
            /\ UNCHANGED <<submitting, sub>>
     ELSE IF currentSessionId = NULL
       THEN /\ submitError' = "Session ID not found."
            /\ UNCHANGED <<submitting, sub>>
     ELSE /\ FreeSubs # {}
          /\ submitError' = NULL
          /\ submitting' = TRUE
          /\ sub' = [sub EXCEPT ![LowestFreeSub] =
                       [pc |-> "token", inst |-> qinst, csid |-> currentSessionId,
                        payload |-> Payload(answers)]]
  /\ UNCHANGED <<qinst, disabled, answers, timers, quizFrame>>

\* lines 116-133: getSession() has settled with tok
SubmitToken(s, tok) ==
  /\ sub[s].pc = "token"
  /\ IF tok = NULL
       THEN /\ sub' = [sub EXCEPT ![s] = IdleSub]
            /\ submitError' = IF Alive(s) THEN "No authentication token. Please sign in again." ELSE submitError
            /\ submitting' = IF Alive(s) THEN FALSE ELSE submitting
       ELSE /\ sub' = [sub EXCEPT ![s].pc = "post"]
            /\ UNCHANGED <<submitError, submitting>>
  /\ UNCHANGED <<qinst, disabled, submitMsg, answers, timers, quizFrame>>

\* a POST whose completion is scheduled whatever the answer
SubmitReturn_CompletesAnyway(s, r) ==
  /\ sub[s].pc = "post"
  /\ sub' = [sub EXCEPT ![s] = IdleSub]
  /\ submitting' = IF Alive(s) THEN FALSE ELSE submitting
  /\ timers' = Append(timers, sub[s].csid)
  /\ IF r.net /\ RespOk(r)
       THEN /\ submitMsg' = IF Alive(s) THEN "Submitted successfully." ELSE submitMsg
            /\ disabled' = IF Alive(s) THEN TRUE ELSE disabled
            /\ submitError' = submitError
       ELSE /\ submitError' = IF Alive(s) THEN "submit failed" ELSE submitError
            /\ UNCHANGED <<submitMsg, disabled>>
  /\ UNCHANGED <<qinst, answers, quizFrame>>

\* lines 143-174: the POST has settled with r
SubmitReturn(s, r) ==
  /\ sub[s].pc = "post"
  /\ sub' = [sub EXCEPT ![s] = IdleSub]
  /\ submitting' = IF Alive(s) THEN FALSE ELSE submitting
  /\ IF r.net /\ RespOk(r)
       THEN /\ submitMsg' = IF Alive(s) THEN "Submitted successfully." ELSE submitMsg
            /\ disabled' = IF Alive(s) THEN TRUE ELSE disabled
            /\ timers' = Append(timers, sub[s].csid)
            /\ submitError' = submitError
       ELSE /\ submitError' = IF Alive(s) THEN "submit failed" ELSE submitError
            /\ UNCHANGED <<submitMsg, disabled, timers>>
  /\ UNCHANGED <<qinst, answers, quizFrame>>

Without(seq, i) == SubSeq(seq, 1, i - 1) \o SubSeq(seq, i + 1, Len(seq))

\* StudentQuizView.tsx lines 165-167 and StudentDashboard.tsx lines 264-269:
\* the timer fires and calls onComplete() without an argument, so that
\* completedQuizId is undefined; then the render that follows.
\* written: localStorage.setItem did not throw.
TimerFire(i, written) ==
  /\ i \in 1..Len(timers)
  /\ timers' = Without(timers, i)
  /\ submitted' = AfterMark(submitted, timers[i], NULL)
  /\ store' = IF written THEN submitted' ELSE store
  /\ peer' = peer
  /\ activeQuiz' = JNull
  /\ FetchQuizzesStart
  /\ Rerender(currentSessionId, JNull)
  /\ UNCHANGED <<act, dashUp, currentSessionId, joinedQuizId, hs, lastStart, nQuizFetch,
                 nSetActive, sub, envVars>>

(***************************************************************************)
(* The page is loaded again; a second dashboard on the same localStorage.  *)
(***************************************************************************)
\* The page that holds the dashboard is reloaded: every state and ref, every
\* pending timer and request of the page is gone, and the components are
\* constructed anew (the mount effects follow in DashMount); localStorage
\* stays.
Restart ==
  /\ dashUp
  /\ sessionId' = NULL /\ session' = JNull /\ loading' = FALSE /\ error' = NULL
  /\ stopped' = FALSE /\ mounted' = FALSE /\ gen' = 0
  /\ abort' = [g \in 1..MaxGen |-> FALSE]
  /\ timer' = [g \in 1..MaxGen |-> FALSE]
  /\ cyc' = [k \in 1..MaxInflight |-> IdleCycle]
  /\ act' = [a \in 1..MaxAct |-> IdleAct]
  /\ activations' = 0 /\ seen' = NoneSeen
  /\ dashUp' = FALSE /\ currentSessionId' = NULL /\ joinedQuizId' = NULL
  /\ activeQuiz' = JNull /\ dError' = NULL /\ submitted' = {}
  /\ hs' = [h \in 1..MaxHandlers |-> IdleHandler]
  /\ histPending' = 0 /\ lastStart' = "none" /\ nQuizFetch' = 0 /\ nSetActive' = 0
  /\ qinst' = 0 /\ submitting' = FALSE /\ disabled' = FALSE
  /\ submitMsg' = NULL /\ submitError' = NULL /\ answers' = <<>>
  /\ sub' = [s \in 1..MaxSubmits |-> IdleSub]
  /\ timers' = <<>>
  /\ UNCHANGED <<store, peer, envVars>>

peerFrame ==
  <<pollVars, lobbyVars, dashUp, currentSessionId, joinedQuizId, activeQuiz, dError,
    submitted, hs, histPending, lastStart, nQuizFetch, nSetActive, quizVars, envVars>>

\* StudentDashboard.tsx lines 63-72 in the second dashboard: it mounts
PeerMount ==
  /\ peer = NoItem
  /\ peer' = LoadSubmitted(store)
  /\ UNCHANGED <<store, peerFrame>>

\* StudentDashboard.tsx lines 74-82 and 264-269 in the second dashboard: a
\* submission for session sId completes there
PeerMark(sId, written) ==
  /\ peer # NoItem
  /\ Key("s", sId) \notin peer
  /\ peer' = AfterMark(peer, sId, NULL)
  /\ store' = IF written THEN peer' ELSE store
  /\ UNCHANGED peerFrame

(***************************************************************************)
(* The backend, as far as the client sees it.                              *)
(***************************************************************************)
RawSession(id, st) == [RawEmpty EXCEPT !.id = id, !.status = st]

\* { message, session: {...} }
Wrapped(raw) == [RawEmpty EXCEPT !.session = raw]

Statuses == {200, 404}

ProbePayloads == {RawSession("S1", "waiting"), Wrapped(RawSession("S1", "active"))}

\* every kind of answer the probe loop tells apart
ProbeResponses ==
  {NetErr}
    \cup {HttpResp(st, k, JNull) : st \in Statuses, k \in {"markup", "garbage", "empty", "json"}}
    \cup {HttpResp(st, "json", p) : st \in Statuses, p \in ProbePayloads}

PollResponses ==
  {NetErr, HttpResp(404, "markup", JNull), HttpResp(200, "empty", JNull),
   HttpResp(200, "json", RawSession("S1", "waiting")),
   HttpResp(200, "json", Wrapped(RawSession("S1", "active")))}

CandidateLists == {SubSeq(CandNames, 1, n) : n \in 1..MaxCand}

Urls(cs) == {cs[i] : i \in 1..Len(cs)}

\* the backend changes what it answers on url u
EnvChange(u, r) ==
  /\ resp[u] # r
  /\ resp' = [resp EXCEPT ![u] = r]
  /\ UNCHANGED <<candidates, norm, pollVars, uiVars>>

InitHook(sid) ==
  /\ sessionId = sid
  /\ session = JNull
  /\ loading = (sid # NULL)
  /\ error = NULL
  /\ stopped = FALSE
  /\ mounted = FALSE
  /\ gen = 0
  /\ abort = [g \in 1..MaxGen |-> FALSE]
  /\ timer = [g \in 1..MaxGen |-> FALSE]
  /\ cyc = [k \in 1..MaxInflight |-> IdleCycle]

\* no dashboard yet: the state of its components at their construction
InitUi ==
  /\ act = [a \in 1..MaxAct |-> IdleAct]
  /\ activations = 0
  /\ seen = NoneSeen
  /\ dashUp = FALSE
  /\ currentSessionId = NULL
  /\ joinedQuizId = NULL
  /\ activeQuiz = JNull
  /\ dError = NULL
  /\ submitted = {}
  /\ peer = NoItem
  /\ hs = [h \in 1..MaxHandlers |-> IdleHandler]
  /\ histPending = 0
  /\ lastStart = "none"
  /\ nQuizFetch = 0
  /\ nSetActive = 0
  /\ qinst = 0
  /\ submitting = FALSE
  /\ disabled = FALSE
  /\ submitMsg = NULL
  /\ submitError = NULL
  /\ answers = <<>>
  /\ sub = [s \in 1..MaxSubmits |-> IdleSub]
  /\ timers = <<>>

(***************************************************************************)
(* SpecProbe: one hook over every candidate list and every combination of  *)
(* answers; the backend does not change its answers.                       *)
(***************************************************************************)
InitProbe ==
  /\ InitHook("S1")
  /\ InitUi /\ store = NoItem
  /\ candidates \in CandidateLists
  /\ resp \in [Urls(candidates) -> ProbeResponses]
  /\ norm = NoNorm

NextProbe ==
  \/ Mount /\ UNCHANGED <<uiVars, envVars>>
  \/ Unmount /\ UNCHANGED <<uiVars, envVars>>
  \/ \E k \in 1..MaxInflight, tok \in {NULL, "tok"} : TokenReturn(k, tok) /\ UNCHANGED <<uiVars, envVars>>
  \/ \E k \in 1..MaxInflight : FetchReturn(k) /\ UNCHANGED <<uiVars, envVars>>

SpecProbe == InitProbe /\ [][NextProbe]_vars

(***************************************************************************)
(* SpecPoll: the hook with its interval, overlapping invocations, changes  *)
(* of the session id, unmount, and a backend that changes its answers.     *)
(***************************************************************************)
InitPoll ==
  /\ \E sid \in SessionIds \cup {NULL} : InitHook(sid)
  /\ InitUi /\ store = NoItem
  /\ candidates = StatusOnly
  /\ resp \in [Urls(candidates) -> PollResponses]
  /\ norm = NoNorm

NextPoll ==
  \/ Mount /\ UNCHANGED <<uiVars, envVars>>
  \/ Unmount /\ UNCHANGED <<uiVars, envVars>>
  \/ \E sid \in SessionIds \cup {NULL} : ChangeSessionId(sid) /\ UNCHANGED <<uiVars, envVars>>
  \/ \E g \in 1..MaxGen : Tick(g) /\ UNCHANGED <<uiVars, envVars>>
  \/ \E k \in 1..MaxInflight : TokenReturn(k, "tok") /\ UNCHANGED <<uiVars, envVars>>
  \/ \E k \in 1..MaxInflight : FetchReturn(k) /\ UNCHANGED <<uiVars, envVars>>
  \/ \E u \in Urls(candidates), r \in PollResponses : EnvChange(u, r)

SpecPoll == InitPoll /\ [][NextPoll]_vars

(***************************************************************************)
(* The backend and the user, as far as the dashboard sees them.            *)
(***************************************************************************)
Tokens == {NULL, "tok"}

\* answers to GET /api/quizzes/q
QuizResponses(q) ==
  {NetErr, HttpResp(404, "json", JNull), HttpResp(200, "empty", JNull),
   HttpResp(200, "json", Quiz(q))}

QuizFound(q) == HttpResp(200, "json", Quiz(q))

\* answers to POST /api/sessions/:id/submit
SubmitResponses == {NetErr, HttpResp(404, "json", JNull), HttpResp(200, "empty", JNull)}

\* the answer of a url the backend does not serve
NotFound == HttpResp(404, "markup", JNull)

\* a session payload without an id
Anonymous(st) == [RawEmpty EXCEPT !.status = st]

InitDashboard(stores, replies) ==
  /\ InitHook(NULL)
  /\ InitUi
  /\ store \in stores
  /\ candidates = StatusOnly
  /\ resp \in [Urls(candidates) -> replies]
  /\ norm = NoNorm

(***************************************************************************)
(* SpecLobby: one LobbyView instance under a dashboard whose join returned  *)
(* no quiz id, fed by a session whose status changes in any order, on a    *)
(* backend that has the status url alone.                                  *)
(***************************************************************************)
LobbyResponses ==
  {NotFound} \cup
  {HttpResp(200, "json", RawSession("S1", st)) : st \in {"waiting", "active", "Active"}}

InitLobby == InitDashboard({NoItem}, LobbyResponses)

NextLobby ==
  \/ DashMount
  \/ HistReturn(TRUE)
  \/ Join("S1", NULL)
  \/ \E g \in 1..MaxGen : LobbyTick(g)
  \/ \E k \in 1..MaxInflight : LobbyTokenReturn(k, "tok")
  \/ \E k \in 1..MaxInflight : LobbyFetchReturn(k)
  \/ \E a \in 1..MaxAct, tok \in Tokens : ActToken(a, tok)
  \/ \E a \in 1..MaxAct, r \in {NotFound} : ActStatusReturn(a, r)
  \/ \E a \in 1..MaxAct, r \in {NotFound} : ActFallbackReturn(a, r)
  \/ \E r \in LobbyResponses : EnvChange(StatusUrl, r)

SpecLobby == InitLobby /\ [][NextLobby]_vars

(***************************************************************************)
(* SpecDash: the dashboard through join, activation, quiz, submission and   *)
(* the return to the lobby, over a store that earlier runs may have filled *)
(* and a session that stays active.                                        *)
(***************************************************************************)
\* what the store holds when the dashboard mounts: nothing, or the key of a
\* quiz that an earlier run has left there
Stores == {NoItem, {Key("q", "Q1")}}

DashPayloads ==
  {Anonymous("active"),
   [RawEmpty EXCEPT !.sessionId = "S1", !.status = "active", !.quizId = "Q1"]}

DashResponses == {HttpResp(200, "json", p) : p \in DashPayloads}

InitDash == InitDashboard(Stores, DashResponses)

NextDash ==
  \/ DashMount
  \/ \E ok \in BOOLEAN : HistReturn(ok)
  \/ \E qid \in QuizIds \cup {NULL} : Join("S1", qid)
  \/ \E g \in 1..MaxGen : LobbyTick(g)
  \/ \E k \in 1..MaxInflight : LobbyTokenReturn(k, "tok")
  \/ \E k \in 1..MaxInflight : LobbyFetchReturn(k)
  \/ \E a \in 1..MaxAct, tok \in Tokens : ActToken(a, tok)
  \/ \E a \in 1..MaxAct : ActStatusReturn(a, NetErr)
  \/ \E h \in 1..MaxHandlers, tok \in Tokens : HandlerToken(h, tok)
  \/ \E h \in 1..MaxHandlers : \E r \in QuizResponses(hs[h].quizId) : HandlerFetchReturn(h, r)
  \/ Submit
  \/ \E s \in 1..MaxSubmits, tok \in Tokens : SubmitToken(s, tok)
  \/ \E s \in 1..MaxSubmits, r \in SubmitResponses : SubmitReturn(s, r)
  \/ \E i \in 1..MaxQuizMounts, written \in BOOLEAN : TimerFire(i, written)

SpecDash == InitDash /\ [][NextDash]_vars

(***************************************************************************)
(* SpecE2E: a join that returns session S1 and quiz Q7, a session that is   *)
(* waiting and then active, and a quiz-detail request that succeeds.       *)
(***************************************************************************)
E2EResponses ==
  {HttpResp(200, "json", RawSession("S1", "waiting")),
   HttpResp(200, "json", RawSession("S1", "active")),
   HttpResp(200, "json", [Anonymous("active") EXCEPT !.quizId = "Q1"])}

InitE2E == InitDashboard({NoItem}, {HttpResp(200, "json", RawSession("S1", "waiting"))})

NextE2E ==
  \/ DashMount
  \/ \E ok \in BOOLEAN : HistReturn(ok)
  \/ Join("S1", "Q7")
  \/ \E g \in 1..MaxGen : LobbyTick(g)
  \/ \E k \in 1..MaxInflight : LobbyTokenReturn(k, "tok")
  \/ \E k \in 1..MaxInflight : LobbyFetchReturn(k)
  \/ \E a \in 1..MaxAct, tok \in Tokens : ActToken(a, tok)
  \/ \E a \in 1..MaxAct : ActStatusReturn(a, NetErr)
  \/ \E h \in 1..MaxHandlers : HandlerToken(h, "tok")
  \/ \E h \in 1..MaxHandlers : HandlerFetchReturn(h, QuizFound(hs[h].quizId))
  \/ \E r \in E2EResponses : EnvChange(StatusUrl, r)

SpecE2E == InitE2E /\ [][NextE2E]_vars

(***************************************************************************)
(* SpecAct: the async block of the activation effect over a status url and *)
(* fallback urls that fail, answer without a payload, or answer a session  *)
(* under one shape or another.  The participant has submitted S1 in an     *)
(* earlier run and joins it again; no payload carries a quiz id.  Every    *)
(* await of a block that was started settles.                              *)
(***************************************************************************)
ActStatusAnswers ==
  {NotFound, HttpResp(200, "markup", JNull),
   HttpResp(200, "json", Anonymous("active")),
   HttpResp(200, "json", Wrapped(RawSession("S1", "active")))}

ActFallbackAnswers ==
  {NotFound, NetErr,
   HttpResp(200, "json", [RawEmpty EXCEPT !.sessionId = "S1", !.state = "active"])}

InitAct == InitDashboard({{Key("s", "S1")}}, ActStatusAnswers)

\* a step of block a
BlockStep(a) ==
  \/ \E tok \in Tokens : ActToken(a, tok)
  \/ \E r \in ActFallbackAnswers : ActStatusReturn(a, r)
  \/ \E r \in ActFallbackAnswers : ActFallbackReturn(a, r)

NextAct ==
  \/ DashMount
  \/ HistReturn(TRUE)
  \/ Join("S1", NULL)
  \/ \E g \in 1..MaxGen : LobbyTick(g)
  \/ \E k \in 1..MaxInflight : LobbyTokenReturn(k, "tok")
  \/ \E k \in 1..MaxInflight : LobbyFetchReturn(k)
  \/ \E a \in 1..MaxAct : BlockStep(a)
  \/ \E r \in ActStatusAnswers : EnvChange(StatusUrl, r)

SpecAct ==
  InitAct /\ [][NextAct]_vars /\ \A a \in 1..MaxAct : WF_vars(BlockStep(a))

(***************************************************************************)
(* SpecStore: the submitted set and its localStorage item, through         *)
(* submissions of session S1 in this dashboard, writes that fail, reloads  *)
(* of the page, and a second dashboard on the same localStorage in which   *)
(* session S2 is submitted.                                                *)
(***************************************************************************)
StoreAnswers == {HttpResp(200, "json", RawSession("S1", "active"))}

InitStore == InitDashboard({NoItem}, StoreAnswers)

NextStore ==
  \/ DashMount
  \/ HistReturn(TRUE)
  \/ Join("S1", "Q1")
  \/ \E g \in 1..MaxGen : LobbyTick(g)
  \/ \E k \in 1..MaxInflight : LobbyTokenReturn(k, "tok")
  \/ \E k \in 1..MaxInflight : LobbyFetchReturn(k)
  \/ \E a \in 1..MaxAct : ActToken(a, NULL)
  \/ \E h \in 1..MaxHandlers : HandlerToken(h, "tok")
  \/ \E h \in 1..MaxHandlers : HandlerFetchReturn(h, QuizFound(hs[h].quizId))
  \/ Submit
  \/ \E s \in 1..MaxSubmits : SubmitToken(s, "tok")
  \/ \E s \in 1..MaxSubmits : SubmitReturn(s, HttpResp(200, "empty", JNull))
  \/ \E i \in 1..MaxQuizMounts, written \in BOOLEAN : TimerFire(i, written)
  \/ Restart
  \/ PeerMount
  \/ \E written \in BOOLEAN : PeerMark("S2", written)

SpecStore == InitStore /\ [][NextStore]_vars

(***************************************************************************)
(* SpecQuiz: the quiz view of session S1, joined with quiz Q1, over a quiz  *)
(* of two questions or of none: selections, clearing, submissions with and *)
(* without a credential, answers of every kind to the POST, and            *)
(* completion.                                                             *)
(***************************************************************************)
\* optIdx of the options of a question
Options == {"0", "1"}

InitQuiz == InitDashboard({NoItem}, StoreAnswers)

NextQuiz ==
  \/ DashMount
  \/ HistReturn(TRUE)
  \/ Join("S1", "Q1")
  \/ \E g \in 1..MaxGen : LobbyTick(g)
  \/ \E k \in 1..MaxInflight : LobbyTokenReturn(k, "tok")
  \/ \E k \in 1..MaxInflight : LobbyFetchReturn(k)
  \/ \E a \in 1..MaxAct : ActToken(a, NULL)
  \/ \E h \in 1..MaxHandlers : HandlerToken(h, "tok")
  \/ \E h \in 1..MaxHandlers, n \in {0, 2} :
       HandlerFetchReturn(h, HttpResp(200, "json", [Quiz(hs[h].quizId) EXCEPT !.questions = n]))
  \/ \E qIdx \in 1..2, optIdx \in Options : handleSelect(qIdx, optIdx)
  \/ ClearAnswers
  \/ Submit
  \/ \E s \in 1..MaxSubmits, tok \in Tokens : SubmitToken(s, tok)
  \/ \E s \in 1..MaxSubmits, r \in SubmitResponses : SubmitReturn(s, r)
  \/ \E i \in 1..MaxQuizMounts : TimerFire(i, TRUE)

SpecQuiz == InitQuiz /\ [][NextQuiz]_vars

(***************************************************************************)
(* SpecReopen: SpecQuiz with a session that goes from active to waiting    *)
(* and back while the quiz-detail request of an activation is in flight.   *)
(***************************************************************************)
NextReopen ==
  \/ NextQuiz
  \/ \E st \in {"waiting", "active"} :
       EnvChange(StatusUrl, HttpResp(200, "json", RawSession("S1", st)))

SpecReopen == InitQuiz /\ [][NextReopen]_vars

(***************************************************************************)
(* SpecJoin: a participant who joins session S1, whose join returns quiz   *)
(* Q1, and session S2, whose join returns no quiz id, in any order and any *)
(* number of times, while the backend answers a session that is waiting,   *)
(* active without a quiz id, or active with quiz Q2.  SpecReady is the     *)
(* same with its scheduling: the interval of the poller keeps firing, and  *)
(* every await that was started settles.                                   *)
(***************************************************************************)
\* what EnterPinModal hands to onJoined
Joins == {[sid |-> "S1", qid |-> "Q1"], [sid |-> "S2", qid |-> NULL]}

JoinAnswers ==
  {HttpResp(200, "json", Anonymous("waiting")),
   HttpResp(200, "json", Anonymous("active")),
   HttpResp(200, "json", [Anonymous("active") EXCEPT !.quizId = "Q2"])}

InitJoin == InitDashboard({NoItem}, {HttpResp(200, "json", Anonymous("waiting"))})

NextJoin ==
  \/ DashMount
  \/ HistReturn(TRUE)
  \/ \E j \in Joins : Join(j.sid, j.qid)
  \/ \E g \in 1..MaxGen : LobbyTick(g)
  \/ \E k \in 1..MaxInflight : LobbyTokenReturn(k, "tok")
  \/ \E k \in 1..MaxInflight : LobbyFetchReturn(k)
  \/ \E a \in 1..MaxAct : ActToken(a, NULL)
  \/ \E h \in 1..MaxHandlers : HandlerToken(h, "tok")
  \/ \E h \in 1..MaxHandlers : HandlerFetchReturn(h, QuizFound(hs[h].quizId))
  \/ \E r \in JoinAnswers : EnvChange(StatusUrl, r)

SpecJoin == InitJoin /\ [][NextJoin]_vars

SpecReady ==
  /\ InitJoin /\ [][NextJoin]_vars
  /\ WF_vars(DashMount) /\ WF_vars(HistReturn(TRUE))
  /\ WF_vars(\E g \in 1..MaxGen : LobbyTick(g))
  /\ WF_vars(\E k \in 1..MaxInflight : LobbyTokenReturn(k, "tok"))
  /\ WF_vars(\E k \in 1..MaxInflight : LobbyFetchReturn(k))
  /\ WF_vars(\E a \in 1..MaxAct : ActToken(a, NULL))
  /\ WF_vars(\E h \in 1..MaxHandlers : HandlerToken(h, "tok"))
  /\ WF_vars(\E h \in 1..MaxHandlers : HandlerFetchReturn(h, QuizFound(hs[h].quizId)))

(***************************************************************************)
(* SpecNorm: normalizeSession applied to payloads of every shape the       *)
(* backend is known to answer with.  A path is the list of property names  *)
(* that leads to a value of the payload.                                   *)
(***************************************************************************)
\* the canonical properties that hold one value
Properties == {"id", "quizId", "status", "startsAt", "endsAt", "pin"}

\* the paths normalizeSession reads for each canonical property, in the
\* order of lines 19, 21-30, 34, 36-43, 44-51 and 53
Aliases ==
  [id       |-> << <<"id">>, <<"sessionId">>, <<"session_id">>, <<"session", "id">> >>,
   quizId   |-> << <<"quizId">>, <<"quiz_id">>, <<"quiz", "id">>, <<"quiz", "quizId">>,
                   <<"quiz", "quiz_id">>, <<"quiz">>, <<"session", "quizId">>,
                   <<"session", "quiz_id">> >>,
   status   |-> << <<"status">>, <<"state">> >>,
   startsAt |-> << <<"startsAt">>, <<"startTime">>, <<"start_time">>, <<"starts_at">>,
                   <<"session", "startsAt">>, <<"session", "startTime">> >>,
   endsAt   |-> << <<"endsAt">>, <<"endTime">>, <<"end_time">>, <<"ends_at">>,
                   <<"session", "endsAt">>, <<"session", "endTime">> >>,
   pin      |-> << <<"pin">>, <<"pinCode">>, <<"code">>, <<"session", "pin">> >>]

\* the paths a backend may put a property under: the ones above, and the
\* canonical name under the session key
Presentations(f) ==
  {Aliases[f][i] : i \in DOMAIN Aliases[f]} \cup {<<"session", f>>}

Paths == UNION {Presentations(f) : f \in Properties}

\* the payload that holds v[p] at every path p, NULL for none; a quiz that
\* is a scalar has no properties
Build(v) ==
  LET KeysOf(o) == {p[2] : p \in {q \in Paths : Len(q) = 2 /\ q[1] = o}}
  IN  [f \in {p[1] : p \in Paths} |->
         CASE f = "session" ->
                IF \A k \in KeysOf(f) : v[<<f, k>>] = NULL THEN JNull
                ELSE [k \in KeysOf(f) |-> v[<<f, k>>]]
           [] f = "quiz" ->
                IF v[<<f>>] # NULL THEN Scalar(v[<<f>>])
                ELSE IF \A k \in KeysOf(f) : v[<<f, k>>] = NULL THEN JNull
                ELSE [k \in KeysOf(f) |-> v[<<f, k>>]]
           [] OTHER -> v[<<f>>]]

\* a value that tells the path it stands at
Val(p) == IF Len(p) = 1 THEN "v:" \o p[1] ELSE "v:" \o p[1] \o "." \o p[2]

\* payloads in which some of the paths of one property hold a value
OrderInputs ==
  {Build([p \in Paths |-> IF p \in P THEN Val(p) ELSE NULL]) :
     P \in UNION {SUBSET {Aliases[f][i] : i \in DOMAIN Aliases[f]} : f \in Properties}}

\* one session, as the canonical properties state it
Logical ==
  [id |-> "S1", quizId |-> "Q7", status |-> "active", startsAt |-> "t1",
   endsAt |-> "t2", pin |-> "4321"]

\* the payload that holds each property of the session at the path sh[f]
Present(sh) ==
  Build([p \in Paths |-> IF \E f \in Properties : sh[f] = p
                           THEN Logical[CHOOSE f \in Properties : sh[f] = p]
                           ELSE NULL])

\* a choice of one path for every property
Shapes ==
  {[id |-> a, quizId |-> b, status |-> c, startsAt |-> d, endsAt |-> e, pin |-> g] :
     a \in Presentations("id"), b \in Presentations("quizId"),
     c \in Presentations("status"), d \in Presentations("startsAt"),
     e \in Presentations("endsAt"), g \in Presentations("pin")}

\* an object without properties
EmptyObject == [f \in {} |-> NULL]

\* null or undefined, scalars, the empty object, a quiz object without an id
EdgeInputs ==
  {JNull, Scalar("false"), Scalar("0"), Scalar(""), Scalar("1"), Scalar("text"),
   EmptyObject, [quiz |-> [title |-> "t"]]}

InitNorm ==
  /\ InitHook(NULL)
  /\ InitUi /\ store = NoItem
  /\ candidates = StatusOnly
  /\ resp = [u \in Urls(candidates) |-> NotFound]
  /\ \/ \E raw \in EdgeInputs \cup OrderInputs :
          norm = [NoNorm EXCEPT !.raw = raw, !.twin = raw]
     \/ \E sh \in Shapes :
          norm = [NoNorm EXCEPT !.raw = Present(sh), !.twin = Present([f \in Properties |-> <<f>>])]

SpecNorm == InitNorm /\ [][Normalize]_vars

(***************************************************************************)
(* Claims about the poller.                                                *)
(***************************************************************************)
\* the effect is live: it has run for a session id and was not cleaned up
PollerLive == mounted /\ gen > 0 /\ sessionId # NULL

\* invocation k belongs to a run that was stopped and takes a step
LateStep(k) == cyc[k].pc # "idle" /\ abort[cyc[k].gen] /\ cyc'[k] # cyc[k]

\* an invocation of run g starts
StartsFor(g) ==
  \E k \in 1..MaxInflight : cyc[k].pc = "idle" /\ cyc'[k].pc = "token" /\ cyc'[k].gen = g

\* C1: after the cleanup of a run of the effect, an invocation of that run
\* that was in flight and settles later, with success or with failure, changes
\* neither session nor error (nor loading), and the interval of that run
\* starts no new invocation.
C1_NoPublishAfterStop ==
  [][ /\ \A k \in 1..MaxInflight :
           LateStep(k) => session' = session /\ error' = error /\ loading' = loading
      /\ \A g \in 1..MaxGen : abort[g] => ~StartsFor(g) ]_vars

\* an invocation that was in flight at the cleanup has settled since: loading
\* was left set by it and nothing is in flight any more
C1_Witness ==
  /\ ~mounted /\ gen > 0 /\ abort[gen]
  /\ \A k \in 1..MaxInflight : cyc[k].pc = "idle"
  /\ loading /\ session = JNull /\ error = NULL

\* the interval of the current run fires and starts an invocation
TickStarts == Tick(gen) /\ cyc' # cyc

\* C10: while the poller is not stopped its interval stays set and a tick
\* starts a new invocation, whatever the earlier invocations published
\* (a session, an error of any kind, or nothing yet).
C10_FailureKeepsPolling ==
  PollerLive => /\ timer[gen] /\ ~stopped /\ ~abort[gen]
                /\ (FreeSlots # {} => ENABLED TickStarts)

\* an invocation has failed, the poller is live and the next tick starts one
C10_Witness ==
  /\ PollerLive /\ error \in {"404", "TypeError: Failed to fetch", "No session info"}
  /\ \A k \in 1..MaxInflight : cyc[k].pc = "idle"
  /\ ENABLED TickStarts

\* the invocations that start in this step
NewCycles == {k \in 1..MaxInflight : cyc[k].pc = "idle" /\ cyc'[k].pc = "token"}

\* the effect runs in this step
EffectRuns == gen' = gen + 1

\* the invocations of the current run that have not ended
CyclesOfRun == {k \in 1..MaxInflight : cyc[k].pc # "idle" /\ cyc[k].gen = gen}

\* C11: a run of the effect with a session id starts exactly one invocation
\* of tryFetchOnce in the same step, ahead of any tick, and sets the interval,
\* whose every tick then starts exactly one invocation; a run of the effect
\* without a session id starts none, sets no interval, and leaves session,
\* loading and error at null, false and null.
C11_ImmediateThenPerTick ==
  /\ [][ /\ (EffectRuns /\ sessionId' # NULL) =>
              /\ Cardinality(NewCycles) = 1
              /\ \A k \in NewCycles : cyc'[k].gen = gen'
              /\ timer'[gen']
         /\ (EffectRuns /\ sessionId' = NULL) =>
              /\ NewCycles = {} /\ ~timer'[gen']
              /\ session' = JNull /\ ~loading' /\ error' = NULL
         /\ ~EffectRuns =>
              /\ Cardinality(NewCycles) <= 1
              /\ \A k \in NewCycles : timer[cyc'[k].gen] ]_vars
  /\ [](PollerLive /\ FreeSlots # {} => ENABLED TickStarts)
  /\ [](gen > 0 /\ sessionId = NULL =>
          /\ CyclesOfRun = {} /\ ~timer[gen]
          /\ session = JNull /\ ~loading /\ error = NULL)

\* the invocation of the effect and the one of a tick are both in flight
C11_Witness ==
  /\ PollerLive /\ timer[gen]
  /\ Cardinality(CyclesOfRun) = 2

\* invocation k ends in this step, in a run that was not stopped, with
\* nothing retrieved / with a payload
CycleFails(k) ==
  cyc[k].pc = "fetch" /\ ~abort[cyc[k].gen] /\ FetchResult(k).pub = "error"
    /\ cyc'[k].pc = "idle"
CycleSucceeds(k) ==
  cyc[k].pc = "fetch" /\ ~abort[cyc[k].gen] /\ FetchResult(k).pub = "session"
    /\ cyc'[k].pc = "idle"

\* C23: an invocation that fails leaves the published session as it is and
\* only sets the error and clears loading; while the hook has a session id
\* the published session changes only when an invocation publishes a
\* success, and then to the payload of that invocation.
C23_FailureKeepsSession ==
  [][ /\ \A k \in 1..MaxInflight :
           /\ CycleFails(k) =>
                /\ session' = session
                /\ error' # NULL /\ ~loading'
                /\ UNCHANGED <<sessionId, stopped, mounted, gen, abort, timer>>
           /\ CycleSucceeds(k) =>
                session' = Unwrap(cyc[k].inflight.body.val)
      /\ (session' # session /\ sessionId' # NULL) =>
           \E k \in 1..MaxInflight : CycleSucceeds(k) ]_vars

\* a session was published, the status url has stopped answering, and an
\* invocation has failed since: the session is there next to the error
C23_Witness ==
  /\ PollerLive /\ session # JNull /\ ~loading
  /\ resp[candidates[1]] = NetErr /\ error = "TypeError: Failed to fetch"
  /\ \A k \in 1..MaxInflight : cyc[k].pc = "idle"

(***************************************************************************)
(* Claims about the probe loop (SpecProbe: the answers do not change).     *)
(***************************************************************************)
\* invocation k ends in this step and its run was not stopped
EndsUnaborted(k) ==
  cyc[k].pc = "fetch" /\ cyc'[k].pc = "idle" /\ ~abort[cyc[k].gen]

\* the answer is a success status with a body that parses as JSON
ValidAnswer(r) == r.net /\ RespOk(r) /\ r.body.kind = "json"

ValidCandidates == {i \in 1..Len(candidates) : ValidAnswer(resp[candidates[i]])}
FirstValid == CHOOSE i \in ValidCandidates : \A j \in ValidCandidates : i <= j

InListOrder(req) == \A i \in 1..Len(req) : req[i] = i

C7_Example ==
  [][ \A k \in 1..MaxInflight :
        ( /\ EndsUnaborted(k)
          /\ Len(candidates) = 3
          /\ resp["A"].net /\ resp["A"].status = 404
          /\ ValidAnswer(resp["B"]) /\ resp["B"].body.val # JNull )
        => /\ cyc[k].req = <<1, 2>>
           /\ session' = Unwrap(resp["B"].body.val) ]_vars

\* invocation k ends in this step and publishes an error
EndsInFailure(k) == EndsUnaborted(k) /\ error' # NULL

\* the error text of the answer r of a candidate that failed
RecordedFor(r) ==
  IF ~r.net THEN "TypeError: Failed to fetch" ELSE StatusStr(r.status)

AllMarkup == \A i \in 1..Len(candidates) : resp[candidates[i]].net /\ IsMarkup(resp[candidates[i]])

\* the one invocation of the hook has ended and its run was not stopped
ProbeEnded ==
  gen = 1 /\ ~abort[1] /\ \A k \in 1..MaxInflight : cyc[k].pc = "idle"

\* C9: when every candidate answers with a markup body, whatever the statuses,
\* no session is ever published and the invocation ends with the status of the
\* last candidate published as the error.
C9_AllMarkupFails ==
  AllMarkup =>
    /\ session = JNull
    /\ ProbeEnded =>
         /\ error = StatusStr(resp[candidates[Len(candidates)]].status)
         /\ ~loading

\* every candidate of a list of two or more answered markup, the last with 200
C9_Witness ==
  /\ AllMarkup /\ ProbeEnded /\ Len(candidates) >= 2
  /\ resp[candidates[Len(candidates)]].status = 200
  /\ error = "200" /\ session = JNull

\* invocation k is given the answer of getSession() in this step, in a run
\* that was not stopped
TokenSettles(k) == cyc[k].pc = "token" /\ cyc'[k] # cyc[k] /\ ~abort[cyc[k].gen]

\* invocation k has sent a request without an Authorization header, and the
\* answer to it is a session payload that it is about to publish
Unauthenticated(k) ==
  /\ cyc[k].pc = "fetch" /\ ~cyc[k].auth /\ ~abort[cyc[k].gen]
  /\ ValidAnswer(cyc[k].inflight) /\ cyc[k].inflight.body.val # JNull

\* C12: an invocation whose getSession() gave no token goes on to request the
\* first candidate, without an Authorization header, and publishes no error
\* in that step; what it publishes later is decided by the answers alone, so
\* a session payload answered to it is published.
C12_ProbesWithoutCredential ==
  [][ \A k \in 1..MaxInflight :
        /\ TokenSettles(k) =>
             /\ cyc'[k].pc = "fetch" /\ cyc'[k].req = <<1>>
             /\ error' = error /\ session' = session
        /\ (Unauthenticated(k) /\ cyc'[k] # cyc[k]) =>
             /\ session' = Unwrap(cyc[k].inflight.body.val)
             /\ error' = error ]_vars

\* an invocation that had no token is about to publish the session answered
\* to its request
C12_Witness ==
  \E k \in 1..MaxInflight :
    /\ Unauthenticated(k) /\ session = JNull /\ error = NULL
    /\ ENABLED (FetchReturn(k) /\ session' = Unwrap(cyc[k].inflight.body.val))

(***************************************************************************)
(* Claims about the activation effect of LobbyView (SpecLobby).            *)
(***************************************************************************)
\* C3: for one LobbyView instance fed status updates in which the active
\* updates are consecutive and spelled alike in the status field, the
\* activation block is started exactly once, on the first active update:
\* not before it, and not again by the active updates that repeat it nor by
\* the updates that follow them.
C3_OnceOnFirstActive ==
  /\ seen.ph \in {"none", "pre"} => activations = 0
  /\ seen.ph \in {"act", "post"} => activations = 1

\* active twice or more, then waiting again: one start
C3_Witness ==
  /\ mounted /\ seen.ph = "post" /\ seen.n = 2
  /\ session.status = "waiting"
  /\ activations = 1

\* C4: once the activation block has been started for a LobbyView instance,
\* no later update starts it again.
C4_ActivationFiresOnce ==
  [][ (mounted /\ mounted' /\ activations >= 1) => activations' = activations ]_vars

(***************************************************************************)
(* Claims about the submitted set and handleSessionStarted (SpecDash).     *)
(***************************************************************************)
\* C2: once the key of the joined session is in the submitted set, no step
\* sets activeQuiz to a quiz again, whatever the session payloads look like.
C2_NoReopenAfterSubmit ==
  [][ (currentSessionId # NULL /\ Key("s", currentSessionId) \in submitted)
        => (activeQuiz' = activeQuiz \/ activeQuiz' = JNull) ]_vars

\* block a ends in this step, and so calls onSessionStarted
Calls(a) == act[a].pc # "idle" /\ act'[a].pc = "idle"

\* the normalized session that block a passes when it ends in this step
CallOf(a) ==
  LET b == act[a]
  IN  IF b.pc = "status" /\ StatusOutcome(b.inflight, b.snap).to = "call"
        THEN StatusOutcome(b.inflight, b.snap).n
      ELSE IF b.pc = "fallback" /\ FallbackOutcome(b.inflight, b.snap).to = "call"
        THEN FallbackOutcome(b.inflight, b.snap).n
      ELSE normalizeSession(b.snap)

\* the call is for session sid: that is the id of the session passed
ForSession(a, sid) == CallOf(a).id = sid

\* the call is for quiz q: the join returned q, or it returned no quiz id and
\* the session passed carries q
ForQuiz(a, q) == act[a].jq = q \/ (act[a].jq = NULL /\ CallOf(a).quizId = q)

\* C5: a call of handleSessionStarted for a session whose key is in the
\* submitted set (with any quiz id), or for a quiz whose key is in it (with
\* any session id), returns without starting the quiz-detail request and
\* without changing activeQuiz or the error.
C5_DedupShortCircuits ==
  [][ \A a \in 1..MaxAct :
        ( /\ Calls(a)
          /\ \/ \E sid \in SessionIds : ForSession(a, sid) /\ Key("s", sid) \in submitted
             \/ \E q \in QuizIds : ForQuiz(a, q) /\ Key("q", q) \in submitted )
        => /\ hs' = hs /\ nQuizFetch' = nQuizFetch
           /\ activeQuiz' = activeQuiz /\ dError' = dError ]_vars

\* a call for quiz Q1 has been turned away: nothing was requested
C5_Witness ==
  /\ lastStart = "dupQuiz" /\ Key("q", "Q1") \in submitted
  /\ nQuizFetch = 0 /\ activeQuiz = JNull /\ dError = NULL
  /\ \A a \in 1..MaxAct : act[a].pc = "idle"

\* the call that block a makes in this step takes q for the quiz id: the
\* check of the quiz key is made with q, and the invocation that goes on to
\* the quiz-detail request holds q
UsesQuiz(a, q) ==
  /\ lastStart' = "dupQuiz" => q # NULL /\ Key("q", q) \in submitted
  /\ lastStart' = "noQuiz" => q = NULL
  /\ lastStart' = "started" =>
       /\ q # NULL /\ Key("q", q) \notin submitted
       /\ \E h \in 1..MaxHandlers :
            hs[h].pc = "idle" /\ hs'[h].pc = "token" /\ hs'[h].quizId = q

\* the quiz-detail request that invocation h issues in this step is for the
\* quiz id it holds
RequestsItsQuiz(h) ==
  hs[h].pc = "token" /\ hs'[h].pc = "fetch" => hs'[h].quizId = hs[h].quizId

\* the session is seen active in this step and block a is started for it
Activates(a) == act[a].pc = "idle" /\ act'[a].pc # "idle"

\* C20: the quiz id that the call of handleSessionStarted of an activation
\* uses for the check of the quiz key and for the quiz-detail request is the
\* one the join had returned at the activation when it had returned one, and
\* the one of the session passed otherwise.
C20_JoinQuizIdFirst ==
  [][ /\ \A a \in 1..MaxAct :
           /\ Activates(a) => act'[a].jq = joinedQuizId'
           /\ Calls(a) => UsesQuiz(a, IF act[a].jq # NULL THEN act[a].jq
                                      ELSE CallOf(a).quizId)
      /\ \A h \in 1..MaxHandlers : RequestsItsQuiz(h) ]_vars

\* The join returned Q7, the session passed carries Q1, whose key is in the
\* submitted set, and the invocation goes on to request Q7.
C20_Witness ==
  /\ joinedQuizId = "Q7" /\ session # JNull /\ session.quizId = "Q1"
  /\ Key("q", "Q1") \in submitted
  /\ lastStart = "started"
  /\ \E h \in 1..MaxHandlers : hs[h].pc = "fetch" /\ hs[h].quizId = "Q7"

\* the message of lines 178-181
NotReadyYet == "Quiz details not available yet - please wait for teacher."

Reloads == dashUp /\ ~dashUp'

\* the dashboard runs its mount effects in this step
Mounts == ~dashUp /\ dashUp'

\* the keys the localStorage item holds
Stored == IF store = NoItem THEN {} ELSE store

\* C14: between the construction of the dashboard and the end of its page,
\* no step takes a key out of submittedRef.current: not the load of the
\* mount effect, not markSubmitted with a write that fails or succeeds, not
\* an activation nor anything else.
C14_SubmittedMonotonic ==
  [][ ~Reloads => submitted \subseteq submitted' ]_vars

\* two keys are in the set, one loaded and one added, after a write that
\* failed: the store does not have the second
C14_Witness ==
  /\ dashUp /\ submitted = {Key("s", "S1"), Key("s", "S2")}
  /\ Stored = {Key("s", "S2")}
  /\ mounted

\* C15: when the page is reloaded, every key of submittedRef.current (the
\* keys that markSubmitted has added, and the keys loaded before them) is in
\* the localStorage item, and the dashboard that mounts afterwards loads
\* the keys of the item into its set.
C15_SurvivesRestart ==
  /\ [][ Reloads => submitted \subseteq Stored ]_vars
  /\ [][ Mounts => submitted' = Stored ]_vars

\* C16: the adds of the dashboards that share the localStorage item lose no
\* entry: no write takes a key out of the item, so that the item holds every
\* key that was written to it by any of them.
C16_NoLostEntry ==
  [][ Stored \subseteq Stored' ]_vars

\* the completion of the i-th pending successful submission is delivered to
\* the dashboard in this step
Completes(i) ==
  i \in 1..Len(timers) /\ timers' = Without(timers, i) /\ dashUp /\ dashUp'

\* C24: once the completion of a successful submission for session S and
\* quiz Q has been delivered, the submitted set and the localStorage item
\* hold the session key of S and the quiz key of Q.
C24_BothKeysRecorded ==
  [][ \A i \in 1..MaxSubmits :
        Completes(i) /\ activeQuiz # JNull =>
          LET both == {Key("s", timers[i]), Key("q", activeQuiz.id)}
          IN  /\ both \subseteq submitted'
              /\ store' # NoItem /\ both \subseteq store' ]_vars

(***************************************************************************)
(* Claim about the async block of the activation effect (SpecAct).         *)
(***************************************************************************)
\* the answer is a success status
Success(r) == r.net /\ RespOk(r)

\* the answer carries a payload: a JSON body that is not null
HasPayload(r) == r.body.kind = "json" /\ r.body.val # JNull

\* the session the payload presents, unwrapped when it is under a session key
PayloadOf(r) == IF r.body.val.session # JNull THEN r.body.val.session ELSE r.body.val

\* block a is waiting for the answer of one of its urls
Requesting(a) == act[a].pc \in {"status", "fallback"}

\* block a passes n, or what has the same effect on the dashboard, in the
\* call it makes when it ends in this step
Passes(a, n) == handleSessionStarted(n, act[a].jq)

\* block a makes no call in a step in which it goes on
GoesOnSilently(a) ==
  (act[a].pc # "idle" /\ act'[a] # act[a] /\ ~Calls(a)) =>
     UNCHANGED <<hs, dError, lastStart>>

\* every block that was started ends
EveryBlockEnds == \A a \in 1..MaxAct : (act[a].pc # "idle") ~> (act[a].pc = "idle")

\* C13 (SpecAct): every block that was started ends, and calls
\* onSessionStarted in the step in which it ends and in no other step of its
\* own.  A block that ends on a url that answered with a success status
\* passes the normalized payload of that url; a block passes the normalized
\* poll session only when it ends without a token or after the last fallback
\* url has failed.
C13_AlwaysSignalsOnce ==
  /\ [][ (lastStart' # lastStart) => \E a \in 1..MaxAct : Calls(a) ]_vars
  /\ [][ \A a \in 1..MaxAct :
           /\ GoesOnSilently(a)
           /\ Calls(a) =>
                IF Requesting(a) /\ Success(act[a].inflight)
                  THEN /\ HasPayload(act[a].inflight)
                       /\ Passes(a, normalizeSession(PayloadOf(act[a].inflight)))
                  ELSE /\ Passes(a, normalizeSession(act[a].snap))
                       /\ Requesting(a) =>
                            (act[a].pc = "fallback" /\ act[a].i = NumFallbacks) ]_vars
  /\ EveryBlockEnds

\* C13 but for the answers of C22: a block that ends on a url that answered
\* with a success status and a body that is no payload passes the normalized
\* poll session.
C13_SignalsOnceOrPollSession ==
  /\ [][ (lastStart' # lastStart) => \E a \in 1..MaxAct : Calls(a) ]_vars
  /\ [][ \A a \in 1..MaxAct :
           /\ GoesOnSilently(a)
           /\ Calls(a) =>
                IF Requesting(a) /\ Success(act[a].inflight) /\ HasPayload(act[a].inflight)
                  THEN Passes(a, normalizeSession(PayloadOf(act[a].inflight)))
                  ELSE /\ Passes(a, normalizeSession(act[a].snap))
                       /\ (Requesting(a) /\ ~Success(act[a].inflight)) =>
                            (act[a].pc = "fallback" /\ act[a].i = NumFallbacks) ]_vars
  /\ EveryBlockEnds

\* the request of block a that settles in this step was answered with a
\* success status and a body that is markup or does not parse
WrongEndpoint(a) ==
  /\ act[a].pc \in {"status", "fallback"} /\ act'[a] # act[a]
  /\ act[a].inflight.net /\ RespOk(act[a].inflight)
  /\ ParseThrows(act[a].inflight)

\* C22: a candidate of the activation chain that answers a success status
\* with a body that is markup or does not parse is skipped: the block
\* requests the next candidate and does not call onSessionStarted on that
\* answer.
C22_MarkupSkippedInChain ==
  [][ \A a \in 1..MaxAct :
        WrongEndpoint(a) /\ ~(act[a].pc = "fallback" /\ act[a].i = NumFallbacks)
          => /\ act'[a].pc = "fallback"
             /\ act'[a].i = act[a].i + 1 ]_vars

(***************************************************************************)
(* Claims about StudentQuizView (SpecQuiz).                                *)
(***************************************************************************)
\* handleSubmit is called in this step and goes on to its request as
\* invocation s
SubmitStarts(s) == sub[s].pc = "idle" /\ sub'[s].pc = "token"

\* the question has no option selected (line 214: a < 0)
Unanswered(a) == a = "-1"

\* C25: in the answers that handleSubmit posts, the entry of a question that
\* has no option selected is null and the entry of every other question is
\* the index of the option selected.
C25_UnansweredPostedAsNull ==
  [][ \A s \in 1..MaxSubmits :
        /\ SubmitStarts(s) =>
             /\ DOMAIN sub'[s].payload = DOMAIN answers
             /\ \A i \in DOMAIN answers :
                  sub'[s].payload[i] = IF Unanswered(answers[i]) THEN NULL ELSE answers[i]
        /\ (sub[s].pc = "token" /\ sub'[s].pc = "post") =>
             sub'[s].payload = sub[s].payload ]_vars

\* the quiz view instance that is mounted stays mounted over this step
InstanceStays == activeQuiz # JNull /\ activeQuiz' # JNull /\ qinst' = qinst

\* the POST of invocation s is answered with success in this step
PostSucceeds(s) ==
  \E r \in SubmitResponses : Success(r) /\ SubmitReturn(s, r)

\* an option is selected or the answers are cleared in this step
Edits ==
  \/ \E qIdx \in DOMAIN answers, optIdx \in Options : handleSelect(qIdx, optIdx)
  \/ ClearAnswers

\* C29: once a POST of the instance has been answered with success the
\* instance is disabled and stays so; while it is disabled, selecting an
\* option and clearing the answers change nothing and no invocation of
\* handleSubmit goes on to a request; an invocation goes on to a request only
\* while none of the instance is in flight, so at most one POST of an
\* instance succeeds.
C29_AtMostOneSubmission ==
  [][ /\ \A s \in 1..MaxSubmits :
           /\ PostSucceeds(s) /\ Alive(s) => ~disabled /\ disabled'
           /\ SubmitStarts(s) =>
                /\ ~disabled /\ ~submitting /\ submitting'
                /\ \A t \in 1..MaxSubmits : sub[t].pc = "idle" \/ ~Alive(t)
           /\ (sub'[s].pc # "idle" /\ Alive(s) /\ InstanceStays) => submitting'
      /\ disabled /\ InstanceStays =>
           /\ disabled'
           /\ \A s \in 1..MaxSubmits : ~SubmitStarts(s)
      /\ disabled /\ Edits => UNCHANGED vars ]_vars

\* a submission has succeeded: the instance is disabled, with an option
\* selected, and its completion is pending
C29_Witness ==
  /\ activeQuiz # JNull /\ disabled /\ ~submitting
  /\ submitMsg = "Submitted successfully."
  /\ answers = <<"1", "-1">> /\ Len(timers) = 1
  /\ \A s \in 1..MaxSubmits : sub[s].pc = "idle"

\* handleSubmit fails in this step: as invocation s past its checks, without
\* a credential or with a POST that is not answered with success
SubmitFails(s) ==
  \/ SubmitToken(s, NULL)
  \/ \E r \in SubmitResponses : ~Success(r) /\ SubmitReturn(s, r)

\* handleSubmit fails in this step at its checks: no questions, no session id
SubmitRefused ==
  Submit /\ (activeQuiz.questions = 0 \/ currentSessionId = NULL)

\* no completion is issued and nothing is recorded in this step
NoCompletion ==
  timers' = timers /\ submitted' = submitted /\ store' = store /\ activeQuiz' = activeQuiz

\* C30: a submission that fails (no questions, no session id, no credential,
\* an error status or a network error) schedules no onComplete and adds
\* nothing to the submitted set; it sets the error and leaves the instance
\* not disabled and not submitting.
C30_FailedSubmissionCompletesNothing ==
  [][ /\ \A s \in 1..MaxSubmits :
           SubmitFails(s) =>
             /\ NoCompletion
             /\ Alive(s) => submitError' # NULL /\ ~submitting' /\ ~disabled'
      /\ SubmitRefused =>
           NoCompletion /\ submitError' # NULL /\ ~submitting' /\ ~disabled' ]_vars

\* a POST has failed: the error is shown, the form can be submitted again,
\* and nothing was recorded
C30_Witness ==
  /\ activeQuiz # JNull /\ submitError = "submit failed"
  /\ ~submitting /\ ~disabled /\ ENABLED Submit
  /\ timers = <<>> /\ submitted = {} /\ store = NoItem

\* the quiz-detail request of invocation h is answered in this step and the
\* answer is assigned to activeQuiz
OpensQuiz(h) ==
  hs[h].pc = "fetch" /\ hs'[h].pc = "idle" /\ activeQuiz' # JNull
    /\ (activeQuiz' # activeQuiz \/ nSetActive' # nSetActive)

\* C26: an invocation of handleSessionStarted assigns a quiz to activeQuiz
\* only while the submitted set holds neither the key of its session nor
\* the key of its quiz, whatever completed while its request was in flight.
C26_NoOpenAfterRecorded ==
  [][ \A h \in 1..MaxHandlers :
        OpensQuiz(h) =>
          /\ Key("s", currentSessionId) \notin submitted
          /\ Key("q", hs[h].quizId) \notin submitted ]_vars

(***************************************************************************)
(* Claims about joins and late quiz ids (SpecJoin, SpecReady).             *)
(***************************************************************************)
\* handleSessionStarted goes on to its awaits in this step, as handler h
StartsHandler(h) == hs[h].pc = "idle" /\ hs'[h].pc # "idle"

\* C27: after a join the join quiz id is the one that join returned, none
\* when it returned none; and an invocation of handleSessionStarted for
\* session S2, whose join returned none, never uses quiz Q1 of the join of S1.
C27_LatestJoinAuthoritative ==
  [][ /\ \A j \in Joins : Join(j.sid, j.qid) => joinedQuizId' = j.qid
      /\ \A h \in 1..MaxHandlers :
           StartsHandler(h) /\ currentSessionId = "S2" => hs'[h].quizId # "Q1" ]_vars

\* the last activation ended not ready, and the poller now holds the session
\* still active and with a quiz id
ReadyLate ==
  /\ lastStart = "noQuiz" /\ mounted /\ activeQuiz = JNull
  /\ session # JNull /\ SStatus(session) = "active"
  /\ normalizeSession(session).quizId # NULL

\* the quiz-detail request was issued and the quiz is open
QuizOpened == nQuizFetch > 0 /\ activeQuiz # JNull

\* the lobby is gone, or the poller no longer holds an active session with a
\* quiz id
Withdrawn ==
  \/ ~mounted \/ session = JNull
  \/ SStatus(session) # "active"
  \/ normalizeSession(session).quizId = NULL

\* C28: when an activation has ended in the not-ready-yet state and an
\* update of the poller then carries a quiz id for the session, still
\* active, the quiz-detail request is eventually issued and the quiz opened,
\* for as long as the session stays active with its quiz id.
C28_LateQuizIdOpensQuiz == ReadyLate ~> (QuizOpened \/ Withdrawn)

(***************************************************************************)
(* Claims about normalizeSession (SpecNorm).                               *)
(***************************************************************************)
\* normalizeSession has returned
Normalized == norm.out # Pending

\* The value a payload holds at a path, NULL for none or null; an object
\* at the path quiz reads as a string.
At(raw, p) ==
  IF raw = JNull \/ IsScalar(raw) \/ p[1] \notin DOMAIN raw THEN NULL
  ELSE IF Len(p) = 1
    THEN IF p[1] # "quiz" THEN raw[p[1]]
         ELSE IF raw.quiz = JNull THEN NULL
         ELSE IF IsScalar(raw.quiz) THEN raw.quiz.scalar
         ELSE ObjectText
    ELSE IF raw[p[1]] = JNull \/ IsScalar(raw[p[1]]) \/ p[2] \notin DOMAIN raw[p[1]]
         THEN NULL
         ELSE raw[p[1]][p[2]]

\* the value at the first path of a list that holds one, NULL when none does
FirstPresent(raw, ps) ==
  IF \A i \in DOMAIN ps : At(raw, ps[i]) = NULL THEN NULL
  ELSE At(raw, ps[CHOOSE i \in DOMAIN ps :
                     /\ At(raw, ps[i]) # NULL
                     /\ \A j \in 1..(i - 1) : At(raw, ps[j]) = NULL])

\* C17: normalizeSession(null) and normalizeSession(undefined) return null;
\* normalizeSession({}) returns a session whose id, quizId, startsAt, endsAt
\* and pin are null and whose status is unknown; null is returned only when
\* the input is absent.
C17_AbsentAndEmpty ==
  Normalized =>
    /\ norm.raw = JNull => norm.out = JNull
    /\ norm.raw = EmptyObject =>
         /\ norm.out # JNull
         /\ \A f \in Properties \ {"status"} : norm.out[f] = NULL
         /\ norm.out.status = "unknown"
    /\ norm.out = JNull => norm.raw = JNull

\* C18: a payload that holds every property of a session under one of its
\* aliases, or under its canonical name in the session object, is
\* normalized to the same id, quizId, status, startsAt, endsAt and pin as
\* the payload that holds them at top level under the canonical names.
C18_AliasInvariance ==
  Normalized /\ norm.out # JNull =>
    \A f \in Properties : norm.out[f] = norm.outTwin[f]

C6_QuizOpenedOnce ==
  seen.ph # "bad" =>
    /\ nQuizFetch <= 1 /\ nSetActive <= 1
    /\ \A h \in 1..MaxHandlers : hs[h].pc # "idle" => hs[h].quizId = "Q7"
    /\ (nSetActive = 1) <=> (activeQuiz = Quiz("Q7"))
    /\ activeQuiz \in {JNull, Quiz("Q7")}

\* the quiz is open after two or more active updates
C6_Witness ==
  /\ seen.ph = "act" /\ seen.n = 2
  /\ activeQuiz = Quiz("Q7") /\ nSetActive = 1 /\ nQuizFetch = 1
  /\ ~mounted

====
